---- MODULE Spec2Model ----
(***************************************************************************)
(* HK Dish Search: the Express server (src/README.md, lines 48-384) and    *)
(* the React client (src/App.jsx).                                         *)
(*                                                                         *)
(* Node runs every handler on one thread: the code between two awaits is   *)
(* one atomic step, and every await is a point where other requests run.   *)
(* Each action below is one such synchronous stretch of a handler.         *)
(*                                                                         *)
(* Text that the code inspects (dish labels, terms, review texts) is a     *)
(* sequence of one-character strings; identifiers that are only compared   *)
(* (place ids, uploader names, messages) are plain strings.                *)
(***************************************************************************)
EXTENDS Integers, Sequences, FiniteSets, TLC

VARIABLES
    disk,       \* the files of server/uploads (metadata.json apart)
    metaFile,   \* the content of server/uploads/metadata.json
    up,         \* the POST /api/upload requests
    provider,   \* what the Places provider answers
    srch,       \* the GET /api/search request
    plc,        \* the GET /api/place request
    photo,      \* the GET /api/photo request
    client,     \* the place modal of the React client
    app         \* the App component of the React client and its requests

vars == <<disk, metaFile, up, provider, srch, plc, photo, client, app>>

storeVars == <<disk, metaFile>>

uploadVars == <<up>>

proxyVars == <<provider, srch, plc, photo>>

clientVars == <<client, app>>

(***************************************************************************)
(* Bounds of the model.                                                    *)
(***************************************************************************)
\* Number of POST /api/upload requests that may be in flight together.
MaxUploads == 2

Uploads == 1 .. MaxUploads

(***************************************************************************)
(* JavaScript values.                                                      *)
(***************************************************************************)
\* undefined, for a request field whose values are plain strings.
Undefined == "<undefined>"

\* undefined, for a request field whose values are character sequences.
UndefinedText == <<"<undefined>">>

\* A test that took only undefined for a missing value.
FalsyUndefinedOnly(v) == v = Undefined

\* !v for a plain string field: undefined and '' are falsy.
Falsy(v) == v \in {Undefined, ""}

(***************************************************************************)
(* File names of the uploads directory.                                    *)
(***************************************************************************)
\* uuidv4(): a value no other call returns.  The call of request r at call
\* site "file" (multer's filename) or "record" (the record id).
uuidv4(r, site) == <<r, site>>

NoUuid == <<0, "none">>

\* null where the code holds a file name (thumbFilename, previewFilename).
NullName == [base |-> NoUuid, suffix |-> "", ext |-> ""]

\* path.extname(file.originalname) || '.jpg'
ExtOrDefault(ext) == IF ext = "" THEN ".jpg" ELSE ext

\* storage.filename: `${uuidv4()}${ext}`
StorageFilename(r, ext) ==
    [base |-> uuidv4(r, "file"), suffix |-> "", ext |-> ExtOrDefault(ext)]

\* `${basename}_thumb.jpg`, with basename = path.parse(original).name
ThumbFilename(orig) == [base |-> orig.base, suffix |-> "_thumb", ext |-> ".jpg"]

\* `${basename}_preview.jpg`
PreviewFilename(orig) == [base |-> orig.base, suffix |-> "_preview", ext |-> ".jpg"]

\* `/uploads/${name}`, or null for a null name.
NullUrl == [prefix |-> "null", name |-> NullName]

UploadsUrl(name) == [prefix |-> "/uploads/", name |-> name]

UrlOrNull(name) == IF name = NullName THEN NullUrl ELSE UploadsUrl(name)

(***************************************************************************)
(* Strings as sequences of one-character strings.                          *)
(***************************************************************************)
UpperLetters ==
    <<"A", "B", "C", "D", "E", "F", "G", "H", "I", "J", "K", "L", "M",
      "N", "O", "P", "Q", "R", "S", "T", "U", "V", "W", "X", "Y", "Z">>

LowerLetters ==
    <<"a", "b", "c", "d", "e", "f", "g", "h", "i", "j", "k", "l", "m",
      "n", "o", "p", "q", "r", "s", "t", "u", "v", "w", "x", "y", "z">>

Digits == <<"0", "1", "2", "3", "4", "5", "6", "7", "8", "9">>

Range(seq) == {seq[i] : i \in 1 .. Len(seq)}

\* String.prototype.toLowerCase, character by character.
LowerChar(c) ==
    IF c \in Range(UpperLetters)
    THEN LowerLetters[CHOOSE i \in 1 .. Len(UpperLetters) : UpperLetters[i] = c]
    ELSE c

toLowerCase(s) == [i \in 1 .. Len(s) |-> LowerChar(s[i])]

\* String.prototype.includes: t occurs in s as a contiguous run.
includes(s, t) ==
    \E i \in 0 .. (Len(s) - Len(t)) : SubSeq(s, i + 1, i + Len(t)) = t

\* The characters String.prototype.trim removes (those that occur here).
WhiteSpace == {" ", "\t", "\n"}

\* String.prototype.trim
trim(s) ==
    LET keep == {i \in 1 .. Len(s) : s[i] \notin WhiteSpace}
    IN IF keep = {} THEN <<>>
       ELSE SubSeq(s, CHOOSE i \in keep : \A j \in keep : i <= j,
                      CHOOSE i \in keep : \A j \in keep : j <= i)

\* The k-th smallest member of a set of numbers.
Kth(S, k) == CHOOSE i \in S : Cardinality({j \in S : j <= i}) = k

\* String.prototype.split(c) for a one-character separator: the pieces
\* between the occurrences of c, empty pieces included.
split(s, c) ==
    LET seps == {i \in 1 .. Len(s) : s[i] = c}
        n == Cardinality(seps)
        from(k) == IF k = 1 THEN 1 ELSE Kth(seps, k - 1) + 1
        to(k) == IF k = n + 1 THEN Len(s) ELSE Kth(seps, k) - 1
    IN [k \in 1 .. n + 1 |-> SubSeq(s, from(k), to(k))]

\* \w of a regular expression: [A-Za-z0-9_].
IsWordChar(c) ==
    c \in Range(UpperLetters) \cup Range(LowerLetters) \cup Range(Digits) \cup {"_"}

\* String.prototype.split(/\W+/): the maximal runs of word characters, with
\* an empty piece in front when the text starts with a separator and one at
\* the end when it ends with one; the empty text gives one empty piece.
splitNonWord(s) ==
    LET starts == {i \in 1 .. Len(s) :
                      IsWordChar(s[i]) /\ (i = 1 \/ ~IsWordChar(s[i - 1]))}
        ends == {i \in 1 .. Len(s) :
                      IsWordChar(s[i]) /\ (i = Len(s) \/ ~IsWordChar(s[i + 1]))}
        runs == [k \in 1 .. Cardinality(starts) |->
                      SubSeq(s, Kth(starts, k), Kth(ends, k))]
        lead == IF Len(s) > 0 /\ ~IsWordChar(s[1]) THEN << <<>> >> ELSE <<>>
        trail == IF Len(s) > 0 /\ ~IsWordChar(s[Len(s)]) THEN << <<>> >> ELSE <<>>
    IN IF Len(s) = 0 THEN << <<>> >> ELSE lead \o runs \o trail

\* Array.prototype.join for texts: the pieces with sep between them.
RECURSIVE join(_, _)
join(pieces, sep) ==
    IF Len(pieces) = 0 THEN <<>>
    ELSE IF Len(pieces) = 1 THEN pieces[1]
    ELSE pieces[1] \o sep \o join(Tail(pieces), sep)

\* Array.prototype.filter(Boolean) for texts: the non-empty ones.
filterBoolean(pieces) == SelectSeq(pieces, LAMBDA t : Len(t) > 0)

\* Number of places of seq that hold x.
Count(seq, x) == Cardinality({i \in 1 .. Len(seq) : seq[i] = x})

Min(a, b) == IF a <= b THEN a ELSE b

(***************************************************************************)
(* Request inputs of POST /api/upload.                                     *)
(***************************************************************************)
NoFile == [present |-> FALSE, mimetype |-> <<"", "">>, ext |-> ""]

\* The photo part of the multipart body: its mimetype as <<type, subtype>>
\* and the extension of its original name ('' when the name has none).
Files ==
    { NoFile,
      [present |-> TRUE, mimetype |-> <<"image", "jpeg">>, ext |-> ""],
      [present |-> TRUE, mimetype |-> <<"text", "plain">>, ext |-> ".txt"] }

PlaceIds == {"P1", "P2"}

wonton == <<"w", "o", "n", "t", "o", "n">>

PlaceIdInputs == {Undefined, ""} \cup PlaceIds

\* The optional fields of the multipart body, either both left out or both
\* filled in.
OptionalInputs ==
    { [dish |-> UndefinedText, uploader_name |-> Undefined],
      [dish |-> wonton, uploader_name |-> "amy"] }

(***************************************************************************)
(* The metadata file, server/uploads/metadata.json.                        *)
(*   kind "json"    : the text JSON.stringify(data) of an array            *)
(*   kind "empty"   : a file of length 0                                   *)
(*   kind "garbage" : text JSON.parse rejects (a partly written array)     *)
(***************************************************************************)
NullRecord ==
    [id |-> NoUuid, filename |-> NullName, url |-> NullUrl, thumb_url |-> NullUrl,
     preview_url |-> NullUrl, place_id |-> Undefined, dish |-> <<>>,
     uploader_name |-> ""]

JsonFile(arr) == [kind |-> "json", data |-> arr]

EmptyFile == [kind |-> "empty", data |-> <<>>]

GarbageFile == [kind |-> "garbage", data |-> <<>>]

\* JSON.parse(raw || '[]') of the file's text; parse errors are thrown.
ParseOk(file) == file.kind \in {"json", "empty"}

\* readMetadata(): the parsed array, or [] when readFileSync or JSON.parse
\* throws.  readOk is whether readFileSync returned the file's text.
readMetadata(file, readOk) ==
    IF readOk /\ ParseOk(file)
    THEN (IF file.kind = "json" THEN file.data ELSE <<>>)
    ELSE <<>>

\* Whether readMetadata() went through its catch branch.
readMetadataFailed(file, readOk) == ~(readOk /\ ParseOk(file))

\* What fs.writeFileSync(META_FILE, text) can do: write the whole text;
\* throw from open() and leave the file alone; throw after open() truncated
\* the file, leaving it empty or holding a prefix of the text.
WriteOutcomes == {"ok", "open_failed", "truncated", "partial"}

writeMetadata(file, arr, outcome) ==
    CASE outcome = "ok" -> JsonFile(arr)
      [] outcome = "open_failed" -> file
      [] outcome = "truncated" -> EmptyFile
      [] outcome = "partial" -> GarbageFile

\* err.message of the error writeFileSync throws.
WriteErrorMessage == "writeFileSync failed"

(***************************************************************************)
(* Responses of POST /api/upload.                                          *)
(***************************************************************************)
NoResponse ==
    [status |-> 0, json |-> FALSE, error |-> "", details |-> "", message |-> "",
     record |-> NullRecord]

\* res.status(code).json({ error })
JsonError(code, error, details) ==
    [status |-> code, json |-> TRUE, error |-> error, details |-> details,
     message |-> "", record |-> NullRecord]

\* res.status(201).json({ message: 'Uploaded', record })
Uploaded(record) ==
    [status |-> 201, json |-> TRUE, error |-> "", details |-> "",
     message |-> "Uploaded", record |-> record]

\* An error passed to next(err) with no error middleware installed: Express'
\* default handler answers err.status || 500 with an HTML page, not JSON.
DefaultErrorHandler(msg) ==
    [status |-> 500, json |-> FALSE, error |-> "", details |-> "",
     message |-> msg, record |-> NullRecord]

(***************************************************************************)
(* POST /api/upload.                                                       *)
(***************************************************************************)
IdleUpload ==
    [pc |-> "idle", file |-> NoFile, saved |-> NullName,
     place_id |-> Undefined, dish |-> UndefinedText, uploader_name |-> Undefined,
     thumbFilename |-> NullName, previewFilename |-> NullName,
     genErr |-> FALSE, readErr |-> FALSE, writeErr |-> FALSE,
     resp |-> NoResponse]

\* fileFilter: file.mimetype.startsWith('image/')
fileFilter(file) == file.mimetype[1] = "image"

\* upload.single('photo'): multer runs fileFilter on the photo part and, when
\* it passes, streams the part to UPLOAD_DIR under storage.filename.  A
\* request without a photo part goes on with req.file undefined.  An error
\* from fileFilter goes to next(err) and the route handler never runs.
\* Requests are numbered in the order they arrive.  f is the photo part of
\* the request.
UploadReceiveOf(r, f) ==
    /\ up[r].pc = "idle"
    /\ \A q \in Uploads : q < r => up[q].pc # "idle"
    /\ IF ~f.present
       THEN /\ up' = [up EXCEPT ![r].pc = "handler", ![r].file = f]
            /\ UNCHANGED disk
       ELSE IF ~fileFilter(f)
       THEN /\ up' = [up EXCEPT ![r].pc = "done", ![r].file = f,
                         ![r].resp = DefaultErrorHandler("Only image files are allowed")]
            /\ UNCHANGED disk
       ELSE /\ up' = [up EXCEPT ![r].pc = "handler", ![r].file = f,
                         ![r].saved = StorageFilename(r, f.ext)]
            /\ disk' = disk \cup {StorageFilename(r, f.ext)}
    /\ UNCHANGED <<metaFile, proxyVars>>

\* A request of any sender.
UploadReceive(r) ==
    /\ \E f \in Files : UploadReceiveOf(r, f)
    /\ UNCHANGED clientVars

\* fs.unlinkSync(req.file.path) on the missing place_id branch.
unlinkSkipped(files, name) == files

unlinkSync(files, name) == files \ {name}

\* The handler from its first line to the await of generateResizedVariants:
\* the two validation returns, or the call of sharp for the thumb.
\* p is the place_id field of the body, o its optional fields.
UploadHandleOf(r, p, o) ==
    /\ up[r].pc = "handler"
    /\ IF ~up[r].file.present
       THEN /\ up' = [up EXCEPT ![r].pc = "done",
                         ![r].resp = JsonError(400, "Missing photo file", "")]
            /\ UNCHANGED disk
       ELSE IF Falsy(p)
       THEN /\ disk' = unlinkSync(disk, up[r].saved)
            /\ up' = [up EXCEPT ![r].pc = "done", ![r].place_id = p,
                         ![r].resp = JsonError(400, "Missing place_id", "")]
       ELSE /\ up' = [up EXCEPT ![r].pc = "thumb", ![r].place_id = p,
                         ![r].dish = o.dish,
                         ![r].uploader_name = o.uploader_name]
            /\ UNCHANGED disk
    /\ UNCHANGED <<metaFile, proxyVars>>

\* A request of any sender.
UploadHandle(r) ==
    /\ \E p \in PlaceIdInputs, o \in OptionalInputs : UploadHandleOf(r, p, o)
    /\ UNCHANGED clientVars

\* generateResizedVariants, first await: sharp(...).toFile(thumbPath).  A
\* rejection leaves the route handler's catch with both names null.
GenThumb(r) ==
    /\ up[r].pc = "thumb"
    /\ \/ /\ disk' = disk \cup {ThumbFilename(up[r].saved)}
          /\ up' = [up EXCEPT ![r].pc = "preview"]
       \/ /\ up' = [up EXCEPT ![r].pc = "append", ![r].genErr = TRUE]
          /\ UNCHANGED disk
    /\ UNCHANGED <<metaFile, proxyVars, clientVars>>

\* generateResizedVariants, second await: sharp(...).toFile(previewPath), then
\* the return of both names.  A rejection here also leaves both names null:
\* the names are assigned only from the returned object.
GenPreview(r) ==
    /\ up[r].pc = "preview"
    /\ \/ /\ disk' = disk \cup {PreviewFilename(up[r].saved)}
          /\ up' = [up EXCEPT ![r].pc = "append",
                       ![r].thumbFilename = ThumbFilename(up[r].saved),
                       ![r].previewFilename = PreviewFilename(up[r].saved)]
       \/ /\ up' = [up EXCEPT ![r].pc = "append", ![r].genErr = TRUE]
          /\ UNCHANGED disk
    /\ UNCHANGED <<metaFile, proxyVars, clientVars>>

\* dish = '' as a destructuring default, then dish || ''.
DishAsGiven(d) == d

DishOrEmpty(d) == IF d = UndefinedText THEN <<>> ELSE d

NameOrEmpty(u) == IF u = Undefined THEN "" ELSE u

\* The record literal of the handler (created_at, a timestamp no code
\* reads, is left out).
MakeRecord(id, saved, thumbFilename, previewFilename, place_id, dish, uploader_name) ==
    [id |-> id,
     filename |-> saved,
     url |-> UploadsUrl(saved),
     thumb_url |-> UrlOrNull(thumbFilename),
     preview_url |-> UrlOrNull(previewFilename),
     place_id |-> place_id,
     dish |-> DishOrEmpty(dish),
     uploader_name |-> NameOrEmpty(uploader_name)]

NewRecordWithVariants(r) ==
    MakeRecord(uuidv4(r, "record"), up[r].saved, ThumbFilename(up[r].saved),
               PreviewFilename(up[r].saved), up[r].place_id, up[r].dish,
               up[r].uploader_name)

NewRecord(r) ==
    MakeRecord(uuidv4(r, "record"), up[r].saved, up[r].thumbFilename,
               up[r].previewFilename, up[r].place_id, up[r].dish,
               up[r].uploader_name)

\* metadata.push(record)
Push(metadata, record) == Append(metadata, record)

\* The handler after the await: readMetadata(), the record, push,
\* writeMetadata() and the 201, with no await between them; an error thrown
\* by writeFileSync reaches the handler's catch, which answers 500.
UploadAppend(r) ==
    /\ up[r].pc = "append"
    /\ \E readOk \in BOOLEAN, w \in WriteOutcomes :
         LET metadata == readMetadata(metaFile, readOk)
             record == NewRecord(r)
         IN /\ metaFile' = writeMetadata(metaFile, Push(metadata, record), w)
            /\ up' = [up EXCEPT
                   ![r].pc = "done",
                   ![r].readErr = readMetadataFailed(metaFile, readOk),
                   ![r].writeErr = (w # "ok"),
                   ![r].resp = IF w = "ok" THEN Uploaded(record)
                               ELSE JsonError(500, "Upload failed", WriteErrorMessage)]
    /\ UNCHANGED <<disk, proxyVars, clientVars>>

(***************************************************************************)
(* GET /api/place: the user photos of a place.                             *)
(***************************************************************************)
\* A filter that compared the dish as stored, without lower-casing it.
DishMatchesAsStored(m, terms) ==
    IF Len(terms) = 0 THEN TRUE
    ELSE \E i \in 1 .. Len(terms) : includes(m.dish, terms[i])

\* The second filter of userPhotos: every record when terms is empty, else
\* the records whose lower-cased dish includes some term.
DishMatches(m, terms) ==
    IF Len(terms) = 0 THEN TRUE
    ELSE \E i \in 1 .. Len(terms) : includes(toLowerCase(m.dish), terms[i])

\* The map of userPhotos: the fields sent to the client.
UserPhoto(m) ==
    [id |-> m.id, url |-> m.url, thumb_url |-> m.thumb_url,
     preview_url |-> m.preview_url, dish |-> m.dish,
     uploader_name |-> m.uploader_name]

\* metadata.filter(place).filter(terms).map(fields)
userPhotos(metadata, place_id, terms) ==
    LET kept == SelectSeq(metadata,
                    LAMBDA m : m.place_id = place_id /\ DishMatches(m, terms))
    IN [i \in 1 .. Len(kept) |-> UserPhoto(kept[i])]

(***************************************************************************)
(* The Places provider, as the server sees it through axios.               *)
(***************************************************************************)
\* process.env.GOOGLE_API_KEY
GOOGLE_API_KEY == "<GOOGLE_API_KEY>"

AllPlaceIds ==
    <<"P1", "P2", "P3", "P4", "P5", "P6", "P7", "P8", "P9", "P10", "P11",
      "P12", "P13", "P14", "P15", "P16", "P17", "P18", "P19", "P20", "P21",
      "P22", "P23">>

NoLocation == [present |-> FALSE, lat |-> 0, lng |-> 0]

\* One entry of textResp.data.results.
Candidate(i) ==
    [place_id |-> AllPlaceIds[i], name |-> <<"text search name", AllPlaceIds[i]>>,
     location |-> NoLocation]

\* detailsResp.data.result for a place: absent (the code takes {}), or a
\* result without photos, or a result with two photos.
DetailKinds == {"absent", "plain", "photos"}

DetailsResult(place_id, kind) ==
    [present |-> kind # "absent",
     place_id |-> IF kind = "absent" THEN Undefined ELSE place_id,
     name |-> IF kind = "absent" THEN <<Undefined, Undefined>>
              ELSE <<"details name", place_id>>,
     location |-> IF kind = "absent" THEN NoLocation
                  ELSE [present |-> TRUE, lat |-> 22, lng |-> 114],
     photos |-> IF kind = "photos"
                THEN << <<"photo A of", place_id>>, <<"photo B of", place_id>> >>
                ELSE <<>>]

\* A provider: the list its text search reports (hasResults FALSE: a body
\* without results) and, per listed place, the kind of its details.
ProviderWorld(n, hasResults, kinds) ==
    [results |-> [i \in 1 .. n |-> Candidate(i)],
     hasResults |-> hasResults,
     kinds |-> kinds,
     placeKind |-> "plain",
     reviews |-> <<>>]

\* One entry of result.reviews; text may be missing.
Review(author_name, text, rating) ==
    [author_name |-> author_name, text |-> text, rating |-> rating,
     profile_photo_url |-> <<"photo of", author_name>>]

\* A provider as GET /api/place needs it: the kind of the details of the
\* place asked for and its reviews.
PlaceWorld(kind, reviews) ==
    [results |-> <<>>, hasResults |-> TRUE, kinds |-> <<>>,
     placeKind |-> kind, reviews |-> reviews]

NoProvider == ProviderWorld(0, TRUE, <<>>)

\* err.message of a rejected axios.get.
UpstreamErrorMessage == "Request failed with status code 500"

(***************************************************************************)
(* GET /api/search.                                                        *)
(***************************************************************************)
\* slice(0, 20)
SearchLimit == 20

NullThumbnail == [kind |-> "null", photo_reference |-> <<"", "">>, maxwidth |-> 0,
                  upload |-> NullUrl]

\* `/api/photo?photoreference=${ref}&maxwidth=${w}`
ProxyPhotoUrl(ref, w) ==
    [kind |-> "proxy", photo_reference |-> ref, maxwidth |-> w, upload |-> NullUrl]

\* A thumb_url of the metadata, used as a thumbnail.
UploadThumbnail(url) ==
    [kind |-> "upload", photo_reference |-> <<"", "">>, maxwidth |-> 0, upload |-> url]

\* googleMapsUrl
googleMapsUrl(place_id) == <<"https://www.google.com/maps/place/?q=place_id:", place_id>>

NullSummary ==
    [place_id |-> Undefined, name |-> <<Undefined, Undefined>>,
     location |-> NoLocation, thumbnail |-> NullThumbnail,
     maps_url |-> googleMapsUrl(Undefined)]

NoSearchResponse ==
    [status |-> 0, error |-> "", details |-> "", query |-> <<>>,
     hasResults |-> FALSE, results |-> <<>>]

\* res.status(code).json({ error, details })
SearchError(code, error, details) ==
    [status |-> code, error |-> error, details |-> details, query |-> <<>>,
     hasResults |-> FALSE, results |-> <<>>]

\* res.json({ query, results })
SearchOk(query, results) ==
    [status |-> 200, error |-> "", details |-> "", query |-> query,
     hasResults |-> TRUE, results |-> results]

IdleSearch ==
    [pc |-> "idle", terms |-> <<>>, query |-> <<>>, limited |-> <<>>,
     fetch |-> <<>>, out |-> <<>>, calls |-> 0, caught |-> "nothing",
     resp |-> NoSearchResponse]

\* req.query.terms || ''
TermsRawOrEmpty(raw) == IF raw = UndefinedText THEN <<>> ELSE raw

\* termsRaw.split(',').map(t => t.trim()).filter(Boolean)
SearchTerms(raw) ==
    LET pieces == split(TermsRawOrEmpty(raw), ",")
    IN filterBoolean([i \in 1 .. Len(pieces) |-> trim(pieces[i])])

\* t.includes(' ') ? `"${t}"` : t
QuoteTerm(t) == IF includes(t, <<" ">>) THEN <<"\"">> \o t \o <<"\"">> ELSE t

\* `${terms.map(quote).join(' OR ')} restaurants in Hong Kong`
BuildQuery(terms) ==
    join([i \in 1 .. Len(terms) |-> QuoteTerm(terms[i])], <<" ", "O", "R", " ">>)
    \o <<" ", "r", "e", "s", "t", "a", "u", "r", "a", "n", "t", "s", " ", "i", "n", " ", "H", "o", "n", "g", " ", "K", "o", "n", "g">>

\* places.slice(0, 20)
Limited(places) == SubSeq(places, 1, Min(Len(places), SearchLimit))

\* metadata.find(m => m.place_id === id && m.thumb_url): the index of the
\* first such record, 0 when there is none.
FindThumb(metadata, place_id) ==
    LET hits == {i \in 1 .. Len(metadata) :
                    metadata[i].place_id = place_id /\ metadata[i].thumb_url # NullUrl}
    IN IF hits = {} THEN 0 ELSE CHOOSE i \in hits : \A j \in hits : i <= j

\* details.x || p.x
OrElse(present, a, b) == IF present THEN a ELSE b

\* A resolution that looked at the uploads before the provider's photos.
ThumbnailUploadsFirst(details, p, metadata) ==
    LET id == OrElse(details.present, details.place_id, p.place_id)
        k == FindThumb(metadata, id)
    IN IF k # 0 THEN UploadThumbnail(metadata[k].thumb_url)
       ELSE IF Len(details.photos) > 0 THEN ProxyPhotoUrl(details.photos[1], 400)
       ELSE NullThumbnail

\* The thumbnail of one result.
Thumbnail(details, p, metadata) ==
    IF Len(details.photos) > 0
    THEN ProxyPhotoUrl(details.photos[1], 400)
    ELSE LET id == OrElse(details.present, details.place_id, p.place_id)
             k == FindThumb(metadata, id)
         IN IF k = 0 THEN NullThumbnail ELSE UploadThumbnail(metadata[k].thumb_url)

\* The object one detail fetch resolves to.
Summary(details, p, metadata) ==
    [place_id |-> OrElse(details.present, details.place_id, p.place_id),
     name |-> OrElse(details.present, details.name, p.name),
     location |-> OrElse(details.location.present, details.location, p.location),
     thumbnail |-> Thumbnail(details, p, metadata),
     maps_url |-> googleMapsUrl(OrElse(details.present, details.place_id, p.place_id))]

\* The query strings a client may send as terms.
TermsRawInputs ==
    { UndefinedText, <<" ", ",", " ">>,
      <<"w", "o", "n", "t", "o", "n", ",", " ", "b", "e", "e", "f", " ", "b", "r", "i", "s", "k", "e", "t">>,
      <<" ", "d", "i", "m", "\t", "s", "u", "m">> }

\* A handler that issued the text search before looking at the terms.
SearchStartCallsFirst ==
    /\ srch.pc = "idle"
    /\ \E raw \in TermsRawInputs :
         LET terms == SearchTerms(raw)
         IN IF Len(terms) = 0
            THEN srch' = [srch EXCEPT !.pc = "done", !.calls = 1,
                              !.resp = SearchError(400, "Missing terms parameter", "")]
            ELSE srch' = [srch EXCEPT !.pc = "text", !.terms = terms,
                              !.query = BuildQuery(terms), !.calls = 1]
    /\ UNCHANGED <<storeVars, uploadVars, provider, plc, photo, clientVars>>

\* The handler up to its first await: the terms, the 400 for no terms, the
\* query and the call of the text search.
\* raw is the terms parameter of the query string.
SearchStartOf(raw) ==
    /\ srch.pc = "idle"
    /\ LET terms == SearchTerms(raw)
       IN IF Len(terms) = 0
          THEN srch' = [srch EXCEPT !.pc = "done",
                            !.resp = SearchError(400, "Missing terms parameter", "")]
          ELSE srch' = [srch EXCEPT !.pc = "text", !.terms = terms,
                            !.query = BuildQuery(terms), !.calls = 1]
    /\ UNCHANGED <<storeVars, uploadVars, plc, photo>>

\* A request of any sender.
SearchStart ==
    /\ \E raw \in TermsRawInputs : SearchStartOf(raw)
    /\ UNCHANGED <<provider, clientVars>>

\* The text search settles.  Rejected: the catch answers 500.  Resolved: the
\* first 20 places are mapped to one detail fetch each, all issued at once,
\* and Promise.all waits for them; with no place at all it resolves at once.
SearchTextSettles ==
    /\ srch.pc = "text"
    /\ \/ srch' = [srch EXCEPT !.pc = "done", !.caught = "text search",
                       !.resp = SearchError(500, "Search failed", UpstreamErrorMessage)]
       \/ LET places == IF provider.hasResults THEN provider.results ELSE <<>>
              limited == Limited(places)
          IN IF Len(limited) = 0
             THEN srch' = [srch EXCEPT !.pc = "done", !.resp = SearchOk(srch.query, <<>>)]
             ELSE srch' = [srch EXCEPT !.pc = "fanout", !.limited = limited,
                               !.fetch = [i \in 1 .. Len(limited) |-> "pending"],
                               !.out = [i \in 1 .. Len(limited) |-> NullSummary],
                               !.calls = 1 + Len(limited)]
    /\ UNCHANGED <<storeVars, uploadVars, provider, plc, photo, clientVars>>

\* How many earlier detail fetches, still pending, a response may overtake.
MaxOvertake == 2

\* The detail fetches that may settle next.
MaySettle(i) ==
    /\ i \in 1 .. Len(srch.fetch)
    /\ srch.fetch[i] = "pending"
    /\ Cardinality({j \in 1 .. i - 1 : srch.fetch[j] = "pending"}) <= MaxOvertake

\* A join that stored the values in the order the promises resolve.
ResolvedByArrival(out, fetch, i, summary) ==
    [out EXCEPT ![Cardinality({j \in 1 .. Len(fetch) : fetch[j] = "ok"}) + 1] = summary]

\* Promise.all(detailsPromises) keeps each value at its promise's index,
\* whenever the promise resolves.
Resolved(out, fetch, i, summary) == [out EXCEPT ![i] = summary]

\* A join that answered with the summaries of the fetches that resolved.
RejectedSkipsPlace(s, i) ==
    [s EXCEPT !.pc = "done", !.fetch[i] = "failed", !.caught = "details",
              !.resp = SearchOk(s.query,
                          SelectSeq(s.out, LAMBDA x : x # NullSummary))]

\* Detail fetch i rejects: Promise.all rejects with its error, whatever the
\* other fetches did, and the catch of the handler answers 500.
Rejected(s, i) ==
    [s EXCEPT !.pc = "done", !.fetch[i] = "failed", !.caught = "details",
              !.resp = SearchError(500, "Search failed", UpstreamErrorMessage)]

\* Detail fetch i settles.  Resolved: its summary is computed (with a read
\* of the metadata when the place has no provider photo) and, when it was
\* the last one pending, Promise.all resolves and the handler answers 200.
\* Rejected: Promise.all rejects and the catch answers 500.  The fetches
\* still pending then settle later, into promises nobody reads: those steps
\* change nothing and are left out.
FetchSettles(i) ==
    /\ srch.pc = "fanout"
    /\ MaySettle(i)
    /\ \/ srch' = Rejected(srch, i)
       \/ \E readOk \in BOOLEAN :
            LET p == srch.limited[i]
                details == DetailsResult(p.place_id, provider.kinds[i])
                summary == Summary(details, p, readMetadata(metaFile, readOk))
                out == Resolved(srch.out, srch.fetch, i, summary)
                fetch == [srch.fetch EXCEPT ![i] = "ok"]
            IN IF \A j \in 1 .. Len(fetch) : fetch[j] = "ok"
               THEN srch' = [srch EXCEPT !.pc = "done", !.fetch = fetch,
                                 !.out = out, !.resp = SearchOk(srch.query, out)]
               ELSE srch' = [srch EXCEPT !.fetch = fetch, !.out = out]
    /\ UNCHANGED <<storeVars, uploadVars, provider, plc, photo, clientVars>>

(***************************************************************************)
(* GET /api/place.                                                         *)
(***************************************************************************)
\* termsRaw.split(',').map(t => t.trim().toLowerCase()).filter(Boolean)
PlaceTerms(raw) ==
    LET pieces == split(TermsRawOrEmpty(raw), ",")
    IN filterBoolean([i \in 1 .. Len(pieces) |-> toLowerCase(trim(pieces[i]))])

\* r.text || ''
TextOrEmpty(text) == IF text = UndefinedText THEN <<>> ELSE text

\* (place.photos || []).map(p => ({ photo_reference, url }))
PlacePhotos(photos) ==
    [i \in 1 .. Len(photos) |->
        [photo_reference |-> photos[i], url |-> ProxyPhotoUrl(photos[i], 800)]]

\* (place.reviews || []).map(r => ({ author_name, text, rating, ... }))
PlaceReviews(reviews) ==
    [i \in 1 .. Len(reviews) |->
        [author_name |-> reviews[i].author_name, text |-> reviews[i].text,
         rating |-> reviews[i].rating]]

\* A filter that compared the text as written, without lower-casing it.
reviewsWithTermsAsWritten(reviews, terms) ==
    SelectSeq(reviews,
        LAMBDA r : IF Len(terms) = 0 THEN FALSE
                   ELSE \E i \in 1 .. Len(terms) :
                           includes(TextOrEmpty(r.text), terms[i]))

\* reviews.filter: no term, no match; else the lower-cased text includes
\* some term.
reviewsWithTerms(reviews, terms) ==
    SelectSeq(reviews,
        LAMBDA r : IF Len(terms) = 0 THEN FALSE
                   ELSE \E i \in 1 .. Len(terms) :
                           includes(toLowerCase(TextOrEmpty(r.text)), terms[i]))

\* reviews.map(r => r.text || '').join(' ').toLowerCase()
allReviewText(reviews) ==
    toLowerCase(join([i \in 1 .. Len(reviews) |-> TextOrEmpty(reviews[i].text)], <<" ">>))

StopWords ==
    { <<"t", "h", "e">>, <<"a", "n", "d">>, <<"o", "f">>, <<"a">>, <<"i", "s">>,
      <<"i", "n">>, <<"t", "o">>, <<"w", "i", "t", "h">>, <<"o", "n">> }

\* The words the forEach counts: the pieces of split(/\W+/) longer than one
\* character that are no stop-word, in text order.
CountedWords(text) ==
    SelectSeq(splitNonWord(text), LAMBDA w : Len(w) > 1 /\ w \notin StopWords)

\* wordCounts[w] once the forEach is over.
WordCount(words, w) == Count(words, w)

\* The keys of wordCounts in the order the forEach created them.
InsertionOrder(words) ==
    LET firsts == SelectSeq([i \in 1 .. Len(words) |-> i],
                      LAMBDA i : \A j \in 1 .. i - 1 : words[j] # words[i])
    IN [k \in 1 .. Len(firsts) |-> words[firsts[k]]]

\* A property key that is an array index: a canonical decimal numeral below
\* 2^32 - 1 (every numeral of up to 9 digits; longer ones do not occur in the
\* texts here).
IsArrayIndex(w) ==
    /\ Len(w) \in 1 .. 9
    /\ \A i \in 1 .. Len(w) : w[i] \in Range(Digits)
    /\ (Len(w) = 1 \/ w[1] # "0")

DigitValue(c) == (CHOOSE i \in 1 .. Len(Digits) : Digits[i] = c) - 1

RECURSIVE NumericValue(_)
NumericValue(w) ==
    IF Len(w) = 0 THEN 0
    ELSE 10 * NumericValue(SubSeq(w, 1, Len(w) - 1)) + DigitValue(w[Len(w)])

\* Object.entries(wordCounts), the keys: own property keys come with the
\* array indices first, in ascending numeric order, then the other string
\* keys in the order they were created.
ObjectKeys(words) ==
    LET created == InsertionOrder(words)
        indices == {w \in Range(created) : IsArrayIndex(w)}
        ascending == [k \in 1 .. Cardinality(indices) |->
                         CHOOSE w \in indices :
                            Cardinality({v \in indices :
                                NumericValue(v) <= NumericValue(w)}) = k]
    IN ascending \o SelectSeq(created, LAMBDA w : ~IsArrayIndex(w))

\* entries.sort((a, b) => b[1] - a[1]): Array.prototype.sort is stable, so
\* entries of equal count keep their order.
SortByCountDescending(keys, words) ==
    LET before(i, j) ==
            \/ WordCount(words, keys[i]) > WordCount(words, keys[j])
            \/ WordCount(words, keys[i]) = WordCount(words, keys[j]) /\ i < j
        rank(i) == 1 + Cardinality({j \in 1 .. Len(keys) : before(j, i)})
    IN [k \in 1 .. Len(keys) |-> keys[CHOOSE i \in 1 .. Len(keys) : rank(i) = k]]

\* .slice(0, 10)
CandidateLimit == 10

\* Object.entries(wordCounts).sort(...).slice(0, 10).map(e => e[0])
candidates(reviews) ==
    LET words == CountedWords(allReviewText(reviews))
        sorted == SortByCountDescending(ObjectKeys(words), words)
    IN SubSeq(sorted, 1, Min(Len(sorted), CandidateLimit))

NoPlaceResponse ==
    [status |-> 0, error |-> "", details |-> "", place_id |-> Undefined,
     name |-> <<Undefined, Undefined>>, photos |-> <<>>, reviews |-> <<>>,
     reviewsWithTerms |-> <<>>, dishCandidates |-> <<>>,
     maps_url |-> googleMapsUrl(Undefined), userPhotos |-> <<>>]

\* res.status(code).json({ error, details })
PlaceError(code, error, details) ==
    [NoPlaceResponse EXCEPT !.status = code, !.error = error, !.details = details]

IdlePlace ==
    [pc |-> "idle", place_id |-> Undefined, terms |-> <<>>, calls |-> 0,
     caught |-> "nothing", resp |-> NoPlaceResponse]

\* The query strings a client may send as terms of a place request.
PlaceTermsRawInputs ==
    { UndefinedText, <<" ", "W", "o", "n", "t", "o", "n", " ", ",">>,
      <<"n", "o", "o", "d", "l", "e", ",", "b", "e", "e", "f", " ", "b", "r", "i", "s", "k", "e", "t">> }

\* The handler up to its await: the terms, the 400 for no place_id, and the
\* call of the place details.
\* id and raw are the place_id and terms of the query string.
PlaceStartOf(id, raw) ==
    /\ plc.pc = "idle"
    /\ IF Falsy(id)
       THEN plc' = [plc EXCEPT !.pc = "done",
                        !.resp = PlaceError(400, "Missing place_id", "")]
       ELSE plc' = [plc EXCEPT !.pc = "details", !.place_id = id,
                        !.terms = PlaceTerms(raw), !.calls = 1]
    /\ UNCHANGED <<storeVars, uploadVars, provider, srch, photo>>

\* A request of any sender.
PlaceStart ==
    /\ \E id \in {Undefined} \cup PlaceIds, raw \in PlaceTermsRawInputs :
          PlaceStartOf(id, raw)
    /\ UNCHANGED clientVars

\* The details call settles.  Rejected: the catch answers 500.  Resolved:
\* the whole body is computed, with one read of the metadata, and sent.
PlaceDetailsSettle ==
    /\ plc.pc = "details"
    /\ \/ plc' = [plc EXCEPT !.pc = "done", !.caught = "details",
                      !.resp = PlaceError(500, "Place fetch failed", UpstreamErrorMessage)]
       \/ \E readOk \in BOOLEAN :
            LET place == DetailsResult(plc.place_id, provider.placeKind)
                raw == IF place.present THEN provider.reviews ELSE <<>>
                reviews == PlaceReviews(raw)
            IN plc' = [plc EXCEPT
                 !.pc = "done",
                 !.resp = [status |-> 200, error |-> "", details |-> "",
                           place_id |-> place.place_id,
                           name |-> place.name,
                           photos |-> PlacePhotos(place.photos),
                           reviews |-> reviews,
                           reviewsWithTerms |-> reviewsWithTerms(reviews, plc.terms),
                           dishCandidates |-> candidates(reviews),
                           maps_url |-> googleMapsUrl(place.place_id),
                           userPhotos |-> userPhotos(readMetadata(metaFile, readOk),
                                                     plc.place_id, plc.terms)]]
    /\ UNCHANGED <<storeVars, uploadVars, provider, srch, photo, clientVars>>

(***************************************************************************)
(* GET /api/photo.                                                         *)
(***************************************************************************)
NoPhotoResponse == [status |-> 0, body |-> "", location |-> <<>>]

IdlePhoto == [pc |-> "idle", resp |-> NoPhotoResponse]

\* res.status(code).send(text)
PhotoSend(code, text) == [status |-> code, body |-> text, location |-> <<>>]

\* res.redirect(url): 302 with the url in the Location header.
Redirect(url) == [status |-> 302, body |-> "", location |-> url]

\* req.query.maxwidth || 800
MaxWidthOrDefault(w) == IF Falsy(w) THEN "800" ELSE w

\* `${photoUrl}?maxwidth=${maxwidth}&photoreference=${ref}&key=${GOOGLE_API_KEY}`
redirectUrl(ref, maxwidth) ==
    <<"https://maps.googleapis.com/maps/api/place/photo", "?maxwidth=", maxwidth,
      "&photoreference=">> \o ref \o <<"&key=", GOOGLE_API_KEY>>

\* The photo references a client may send: none, or one a search or place
\* response carried.
PhotoReferenceInputs ==
    {UndefinedText} \cup {DetailsResult(id, "photos").photos[1] : id \in PlaceIds}

\* The whole handler: it has no await.
PhotoRequest ==
    /\ photo.pc = "idle"
    /\ \E ref \in PhotoReferenceInputs, w \in {Undefined, "400"} :
         IF ref = UndefinedText
         THEN photo' = [pc |-> "done", resp |-> PhotoSend(400, "Missing photoreference")]
         ELSE photo' = [pc |-> "done",
                        resp |-> Redirect(redirectUrl(ref, MaxWidthOrDefault(w)))]
    /\ UNCHANGED <<storeVars, uploadVars, provider, srch, plc, clientVars>>

(***************************************************************************)
(* The React client: the place modal (src/App.jsx, PlaceModal).            *)
(***************************************************************************)
\* useState(null): no details yet.
NullDetails == [loaded |-> FALSE, place_id |-> Undefined, userPhotos |-> <<>>]

\* setDetails(r.data), the part the photos tab shows.
Details(data) ==
    [loaded |-> TRUE, place_id |-> data.place_id, userPhotos |-> data.userPhotos]

\* No modal: selected is null.
ClosedModal ==
    [pc |-> "closed", place_id |-> Undefined, query |-> <<>>,
     form |-> [dish |-> <<>>, uploader_name |-> ""],
     details |-> NullDetails, refreshed |-> FALSE]

noodle == <<"n", "o", "o", "d", "l", "e">>

\* The text of the search box while the modal is open.
QueryInputs == {<<>>, wonton, noodle}

\* The values of the dish and name fields of the upload form.
FormInputs ==
    { [dish |-> <<>>, uploader_name |-> ""],
      [dish |-> wonton, uploader_name |-> "amy"] }

\* The files a user may choose: the form sends nothing without one.
ChosenFiles == {f \in Files : f.present}

\* if (dishInput.value) fd.append('dish', ...): an empty field is not sent.
FormBody(form) ==
    [dish |-> IF form.dish = <<>> THEN UndefinedText ELSE form.dish,
     uploader_name |-> IF form.uploader_name = "" THEN Undefined
                       ELSE form.uploader_name]

\* A place of the list is clicked: the modal mounts and its effect calls
\* fetchDetails, which sends GET /api/place with the place and the query.
ModalOpen ==
    /\ client.pc = "closed"
    /\ \E id \in PlaceIds, q \in QueryInputs :
         /\ client' = [client EXCEPT !.pc = "loading", !.place_id = id, !.query = q]
         /\ PlaceStartOf(id, q)
    /\ UNCHANGED app

\* fetchDetails after its await: setDetails(r.data) on a 2xx answer; any
\* other answer is caught and logged, and the details stay as they were.
\* The first call shows the form when details are there, the call made by
\* handleUpload ends the upload.
FetchDetailsDone ==
    /\ client.pc \in {"loading", "refreshing"}
    /\ plc.pc = "done"
    /\ LET ok == plc.resp.status = 200
           details == IF ok THEN Details(plc.resp) ELSE client.details
       IN client' = [client EXCEPT
              !.details = details,
              !.refreshed = (client.pc = "refreshing" /\ ok),
              !.pc = IF client.pc = "refreshing" THEN "shown"
                     ELSE IF details.loaded THEN "form" ELSE "loading failed"]
    /\ plc' = IdlePlace
    /\ UNCHANGED <<storeVars, uploadVars, provider, srch, photo, app>>

\* handleUpload up to its await: the form data and the POST, which multer
\* receives.
HandleUpload ==
    /\ client.pc = "form"
    /\ \E f \in ChosenFiles, form \in FormInputs :
         /\ client' = [client EXCEPT !.pc = "posting", !.form = form]
         /\ UploadReceiveOf(1, f)
    /\ UNCHANGED app

\* The route handler runs on the body the form sent.
UploadHandleForm ==
    /\ client.pc = "posting"
    /\ UploadHandleOf(1, client.place_id, FormBody(client.form))
    /\ UNCHANGED clientVars

\* handleUpload after the POST: on 201 it calls fetchDetails again; any other
\* answer makes axios throw, and the catch alerts 'Upload failed'.
UploadAnswered ==
    /\ client.pc = "posting"
    /\ up[1].pc = "done"
    /\ IF up[1].resp.status = 201
       THEN /\ client' = [client EXCEPT !.pc = "refreshing"]
            /\ PlaceStartOf(client.place_id, client.query)
       ELSE /\ client' = [client EXCEPT !.pc = "upload failed"]
            /\ UNCHANGED <<storeVars, uploadVars, proxyVars>>
    /\ UNCHANGED app

(***************************************************************************)
(* The React client: the App component (src/App.jsx, App), its searches    *)
(* and the detail fetches of its modal, any number in flight together.     *)
(* The server takes the requests one at a time, in the order they are      *)
(* sent; the responses reach the client in any order.                      *)
(***************************************************************************)
\* Number of searches a user submits.
MaxSearches == 2

\* Number of times a user selects a place.
MaxFetches == 2

\* useState('') / useState([]) / useState(null) / useState(false), and no
\* request sent yet.  search and fetch hold, per request sent, where it is
\* ("sent", "answered": the response is on its way, "done": the await is
\* over) and the response.
IdleApp ==
    [query |-> <<>>, places |-> <<>>, selected |-> NullSummary,
     loading |-> FALSE, search |-> <<>>, fetch |-> <<>>]

\* onSubmit and doSearch up to its await: the text of the box is cleaned,
\* an empty one returns at once, else loading is set and GET /api/search is
\* sent with it.  What the provider will answer depends on the query it is
\* sent: one place for wonton, two for any other.
DoSearch ==
    /\ Len(app.search) < MaxSearches
    /\ \E text \in QueryInputs :
         LET pieces == split(text, ",")
             cleaned == join(filterBoolean([i \in 1 .. Len(pieces) |-> trim(pieces[i])]),
                             <<",">>)
         IN IF cleaned = <<>>
            THEN /\ app' = [app EXCEPT !.query = text]
                 /\ UNCHANGED <<storeVars, uploadVars, proxyVars>>
            ELSE /\ app' = [app EXCEPT
                        !.query = text, !.loading = TRUE,
                        !.search = Append(@, [pc |-> "sent", q |-> cleaned,
                                              resp |-> NoSearchResponse])]
                 /\ SearchStartOf(cleaned)
                 /\ provider' = ProviderWorld(IF cleaned = wonton THEN 1 ELSE 2,
                                              TRUE, <<"photos", "plain">>)
    /\ UNCHANGED client

\* res.json / res.status(code).json of GET /api/search: the response leaves
\* the server for the request that was sent last.
SearchReply ==
    /\ srch.pc = "done"
    /\ app' = [app EXCEPT !.search[Len(app.search)].pc = "answered",
                          !.search[Len(app.search)].resp = srch.resp]
    /\ srch' = IdleSearch
    /\ UNCHANGED <<storeVars, uploadVars, provider, plc, photo, client>>

\* doSearch after its await, for the k-th search: setPlaces(resp.data.results)
\* on a 2xx answer, the alert on any other, and setLoading(false) in both.
SearchArrives(k) ==
    /\ k \in 1 .. Len(app.search)
    /\ app.search[k].pc = "answered"
    /\ app' = [app EXCEPT
           !.search[k].pc = "done",
           !.places = IF app.search[k].resp.status = 200
                      THEN app.search[k].resp.results ELSE @,
           !.loading = FALSE]
    /\ UNCHANGED <<storeVars, uploadVars, proxyVars, client>>

\* A place of the list is clicked: setSelected(p).  The modal is rendered
\* for p: mounted with null details when there was none, else the same
\* component with the details it holds; place has changed, so the effect
\* calls fetchDetails, which sends GET /api/place with p and the query.
SelectPlace ==
    /\ Len(app.fetch) < MaxFetches
    /\ \E i \in 1 .. Len(app.places) :
         LET p == app.places[i]
         IN /\ p # app.selected
            /\ app' = [app EXCEPT
                   !.selected = p,
                   !.fetch = Append(@, [pc |-> "sent", place_id |-> p.place_id,
                                        resp |-> NoPlaceResponse])]
            /\ client' = [client EXCEPT !.pc = "loading", !.place_id = p.place_id,
                                        !.query = app.query]
            /\ PlaceStartOf(p.place_id, app.query)

\* res.json / res.status(code).json of GET /api/place: the response leaves
\* the server for the request that was sent last.
PlaceReply ==
    /\ plc.pc = "done"
    /\ app' = [app EXCEPT !.fetch[Len(app.fetch)].pc = "answered",
                          !.fetch[Len(app.fetch)].resp = plc.resp]
    /\ plc' = IdlePlace
    /\ UNCHANGED <<storeVars, uploadVars, provider, srch, photo, client>>

\* fetchDetails after its await, for the k-th fetch: setDetails(r.data) on a
\* 2xx answer; any other is caught and logged.
FetchArrives(k) ==
    /\ k \in 1 .. Len(app.fetch)
    /\ app.fetch[k].pc = "answered"
    /\ app' = [app EXCEPT !.fetch[k].pc = "done"]
    /\ client' = IF app.fetch[k].resp.status = 200
                 THEN [client EXCEPT !.pc = "form",
                                     !.details = Details(app.fetch[k].resp)]
                 ELSE client
    /\ UNCHANGED <<storeVars, uploadVars, proxyVars>>

(***************************************************************************)
(* The upload service: any number of requests up to MaxUploads, in flight  *)
(* together, over one uploads directory and one metadata file.             *)
(***************************************************************************)
\* After start-up: the uploads directory exists and metadata.json holds [].
Init ==
    /\ disk = {}
    /\ metaFile = JsonFile(<<>>)
    /\ up = [r \in Uploads |-> IdleUpload]
    /\ provider = NoProvider
    /\ srch = IdleSearch
    /\ plc = IdlePlace
    /\ photo = IdlePhoto
    /\ client = ClosedModal
    /\ app = IdleApp

Next ==
    \E r \in Uploads :
       \/ UploadReceive(r)
       \/ UploadHandle(r)
       \/ GenThumb(r)
       \/ GenPreview(r)
       \/ UploadAppend(r)

Spec == Init /\ [][Next]_vars

(***************************************************************************)
(* The uploads directory and metadata file that earlier uploads left.      *)
(***************************************************************************)
\* The record and files of the n-th upload of an earlier run of the server,
\* with or without its variants.  Its uuids are those of no request of this
\* run: they are numbered below 0.
PastRecord(n, place_id, dish, variants) ==
    LET saved == StorageFilename(0 - n, "")
    IN MakeRecord(uuidv4(0 - n, "record"), saved,
                  IF variants THEN ThumbFilename(saved) ELSE NullName,
                  IF variants THEN PreviewFilename(saved) ELSE NullName,
                  place_id, dish, Undefined)

PastFiles(n, variants) ==
    LET saved == StorageFilename(0 - n, "")
    IN {saved} \cup (IF variants THEN {ThumbFilename(saved), PreviewFilename(saved)}
                     ELSE {})

\* A dish label written with a capital.
Wonton == <<"W", "o", "n", "t", "o", "n">>

PastStores ==
    { [disk |-> {}, metaFile |-> JsonFile(<<>>)],
      [disk |-> PastFiles(1, FALSE) \cup PastFiles(2, TRUE) \cup PastFiles(3, TRUE)
                \cup PastFiles(4, TRUE),
       metaFile |-> JsonFile(<<PastRecord(1, "P2", wonton, FALSE),
                               PastRecord(2, "P2", UndefinedText, TRUE),
                               PastRecord(3, "P2", Wonton, TRUE),
                               PastRecord(4, "P1", wonton, TRUE)>>)],
      [disk |-> PastFiles(1, TRUE), metaFile |-> GarbageFile] }

(***************************************************************************)
(* The search service: one GET /api/search against a provider that lists   *)
(* up to MaxCandidates places, or about SearchLimit places.                *)
(***************************************************************************)
\* Length of the short candidate lists, whose detail kinds are all tried.
MaxCandidates == 3

\* The kinds of the long lists: a fixed pattern.
PatternKinds(n) ==
    [i \in 1 .. n |-> IF i % 3 = 0 THEN "absent" ELSE IF i % 3 = 1 THEN "photos" ELSE "plain"]

ShortWorlds ==
    UNION { { ProviderWorld(n, TRUE, kinds) : kinds \in [1 .. n -> DetailKinds] } :
            n \in 0 .. MaxCandidates }

LongWorlds ==
    { ProviderWorld(n, TRUE, PatternKinds(n)) : n \in {SearchLimit, SearchLimit + 1} }

\* A text search whose body has no results field.
BareWorld == ProviderWorld(1, FALSE, PatternKinds(1))

\* The stored uploads the long lists are searched against.
LongStore == CHOOSE st \in PastStores : st.metaFile.kind = "json" /\ st.disk # {}

InitSearch ==
    /\ up = [r \in Uploads |-> IdleUpload]
    /\ srch = IdleSearch
    /\ plc = IdlePlace
    /\ photo = IdlePhoto
    /\ client = ClosedModal
    /\ app = IdleApp
    /\ \/ /\ provider \in ShortWorlds \cup {BareWorld}
          /\ \E st \in PastStores : disk = st.disk /\ metaFile = st.metaFile
       \/ /\ provider \in LongWorlds
          /\ disk = LongStore.disk /\ metaFile = LongStore.metaFile

NextSearch ==
    \/ SearchStart
    \/ SearchTextSettles
    \/ \E i \in 1 .. SearchLimit : FetchSettles(i)

SpecSearch == InitSearch /\ [][NextSearch]_vars

(***************************************************************************)
(* The place service: one GET /api/place for a place whose reviews are     *)
(* every text of up to MaxTextLen characters, or one of a few longer ones. *)
(***************************************************************************)
MaxTextLen == 5

TextAlphabet == {"a", "1", "2", " "}

ShortTexts == UNION { [1 .. n -> TextAlphabet] : n \in 0 .. MaxTextLen }

\* "Great noodles and amazing broth, noodles!"
GreatNoodles ==
    <<
      "G", "r", "e", "a", "t", " ", "n", "o", "o", "d", "l", "e", "s", " ",
      "a", "n", "d", " ", "a", "m", "a", "z", "i", "n", "g", " ", "b", "r",
      "o", "t", "h", ",", " ", "n", "o", "o", "d", "l", "e", "s", "!" >>

\* Thirteen words, twelve of them distinct.
TwelveDishes ==
    <<
      "a", "a", " ", "b", "b", " ", "c", "c", " ", "d", "d", " ", "e", "e",
      " ", "f", "f", " ", "g", "g", " ", "h", "h", " ", "i", "i", " ", "j",
      "j", " ", "k", "k", " ", "l", "l", " ", "b", "b" >>

\* "wonton 42 10 wonton"
WontonNumbers ==
    <<
      "w", "o", "n", "t", "o", "n", " ", "4", "2", " ", "1", "0", " ", "w",
      "o", "n", "t", "o", "n" >>

\* "Beef Brisket, the best"
BeefBrisket ==
    <<
      "B", "e", "e", "f", " ", "B", "r", "i", "s", "k", "e", "t", ",", " ",
      "t", "h", "e", " ", "b", "e", "s", "t" >>

LongReviews ==
    { <<Review("Ann", GreatNoodles, 5)>>,
      <<Review("Bob", TwelveDishes, 4)>>,
      <<Review("Cat", WontonNumbers, 3)>>,
      <<Review("Ann", BeefBrisket, 5), Review("Bob", UndefinedText, 1),
        Review("Cat", GreatNoodles, 4)>> }

\* The places with one short review.
TextWorlds == { PlaceWorld("photos", <<Review("Ann", t, 5)>>) : t \in ShortTexts }

\* The places with longer reviews, with no review, and with no result.
SampleWorlds ==
    { PlaceWorld("photos", rs) : rs \in LongReviews }
    \cup { PlaceWorld("plain", <<>>),
           PlaceWorld("absent", <<Review("Ann", BeefBrisket, 5)>>) }

InitPlace ==
    /\ up = [r \in Uploads |-> IdleUpload]
    /\ srch = IdleSearch
    /\ plc = IdlePlace
    /\ photo = IdlePhoto
    /\ client = ClosedModal
    /\ app = IdleApp
    /\ \/ /\ provider \in TextWorlds
          /\ disk = LongStore.disk /\ metaFile = LongStore.metaFile
       \/ /\ provider \in SampleWorlds
          /\ \E st \in PastStores : disk = st.disk /\ metaFile = st.metaFile

NextPlace ==
    \/ PlaceStart
    \/ PlaceDetailsSettle

SpecPlace == InitPlace /\ [][NextPlace]_vars

(***************************************************************************)
(* The provider-facing endpoints together: one search, one place request   *)
(* and one photo request, in any interleaving, against one provider.       *)
(***************************************************************************)
ProxyWorlds ==
    { [ProviderWorld(2, TRUE, kinds) EXCEPT !.placeKind = "photos", !.reviews = rs] :
         kinds \in [1 .. 2 -> DetailKinds],
         rs \in { <<Review("Cat", WontonNumbers, 3)>> } }

InitProxy ==
    /\ disk = LongStore.disk /\ metaFile = LongStore.metaFile
    /\ up = [r \in Uploads |-> IdleUpload]
    /\ srch = IdleSearch
    /\ plc = IdlePlace
    /\ photo = IdlePhoto
    /\ client = ClosedModal
    /\ app = IdleApp
    /\ provider \in ProxyWorlds

NextProxy ==
    \/ SearchStart
    \/ SearchTextSettles
    \/ \E i \in 1 .. SearchLimit : FetchSettles(i)
    \/ PlaceStart
    \/ PlaceDetailsSettle
    \/ PhotoRequest

SpecProxy == InitProxy /\ [][NextProxy]_vars

(***************************************************************************)
(* The whole server: one upload, one search and one place request, in any   *)
(* interleaving, over one store and one provider.                          *)
(***************************************************************************)
\* The provider lists one place; its details are of every kind.
ServerWorlds ==
    { [ProviderWorld(1, TRUE, <<kind>>) EXCEPT
          !.placeKind = "photos", !.reviews = <<Review("Ann", wonton, 5)>>] :
         kind \in DetailKinds }

\* The server starts on a fresh uploads directory or on the one earlier
\* uploads left.
InitServer ==
    /\ \/ disk = {} /\ metaFile = JsonFile(<<>>)
       \/ disk = LongStore.disk /\ metaFile = LongStore.metaFile
    /\ up = [r \in Uploads |-> IdleUpload]
    /\ srch = IdleSearch
    /\ plc = IdlePlace
    /\ photo = IdlePhoto
    /\ client = ClosedModal
    /\ app = IdleApp
    /\ provider \in ServerWorlds

NextServer ==
    \/ UploadReceive(1)
    \/ UploadHandle(1)
    \/ GenThumb(1)
    \/ GenPreview(1)
    \/ UploadAppend(1)
    \/ SearchStart
    \/ SearchTextSettles
    \/ FetchSettles(1)
    \/ PlaceStart
    \/ PlaceDetailsSettle

SpecServer == InitServer /\ [][NextServer]_vars

(***************************************************************************)
(* The place modal against the server: the modal opens on a place, loads    *)
(* its details, sends one upload and loads the details again.              *)
(***************************************************************************)
InitClient ==
    /\ \/ disk = {} /\ metaFile = JsonFile(<<>>)
       \/ disk = LongStore.disk /\ metaFile = LongStore.metaFile
    /\ up = [r \in Uploads |-> IdleUpload]
    /\ srch = IdleSearch
    /\ plc = IdlePlace
    /\ photo = IdlePhoto
    /\ client = ClosedModal
    /\ app = IdleApp
    /\ provider \in { PlaceWorld(kind, <<Review("Ann", wonton, 5)>>) :
                         kind \in {"photos", "absent"} }

NextClient ==
    \/ ModalOpen
    \/ PlaceDetailsSettle
    \/ FetchDetailsDone
    \/ HandleUpload
    \/ UploadHandleForm
    \/ GenThumb(1)
    \/ GenPreview(1)
    \/ UploadAppend(1)
    \/ UploadAnswered

SpecClient == InitClient /\ [][NextClient]_vars

(***************************************************************************)
(* The App component against the server: searches are submitted, places    *)
(* of the list are selected, and the answers arrive in any order.          *)
(***************************************************************************)
InitApp ==
    /\ disk = LongStore.disk
    /\ metaFile = LongStore.metaFile
    /\ up = [r \in Uploads |-> IdleUpload]
    /\ provider = NoProvider
    /\ srch = IdleSearch
    /\ plc = IdlePlace
    /\ photo = IdlePhoto
    /\ client = ClosedModal
    /\ app = IdleApp

NextApp ==
    \/ DoSearch
    \/ SearchTextSettles
    \/ \E i \in 1 .. SearchLimit : FetchSettles(i)
    \/ SearchReply
    \/ \E k \in 1 .. MaxSearches : SearchArrives(k)
    \/ SelectPlace
    \/ PlaceDetailsSettle
    \/ PlaceReply
    \/ \E k \in 1 .. MaxFetches : FetchArrives(k)

SpecApp == InitApp /\ [][NextApp]_vars

(***************************************************************************)
(* Properties of the upload service.                                       *)
(***************************************************************************)
\* The Record Store as a reader finds it: the parse of the metadata file.
StoreRecords == readMetadata(metaFile, TRUE)

Answered(r) == up[r].pc = "done"

\* The request carried a photo part that is an image.
ImageUpload(r) == up[r].file.present /\ up[r].file.mimetype[1] = "image"

\* Request r ends its append in this step.
AppendStep(r) == up[r].pc = "append" /\ up'[r].pc = "done"

\* C1: for any number of concurrent uploads and any interleaving of their
\* steps, once all of them have answered 201 the Record Store holds every
\* returned record exactly once.
C1_NoAppendLost ==
    (\A r \in Uploads : up[r].pc \in {"idle", "done"}
                        /\ (Answered(r) => up[r].resp.status = 201))
    => \A r \in Uploads :
          Answered(r) => Count(StoreRecords, up[r].resp.record) = 1

\* C3: an upload whose append found the metadata store unreadable or
\* unwritable is reported as failed, never 201.
C3_StoreFailureReported ==
    \A r \in Uploads :
       Answered(r) /\ (up[r].readErr \/ up[r].writeErr)
       => up[r].resp.status = 500

\* C4: an upload whose file is not an image answers 400 with a structured
\* {error} payload, and no file of it is in the uploads directory and no
\* record of it in the Record Store.
C4_NonImageIs400 ==
    \A r \in Uploads :
       Answered(r) /\ up[r].file.present /\ up[r].file.mimetype[1] # "image"
       => /\ up[r].resp.status = 400
          /\ up[r].resp.json
          /\ up[r].resp.error # ""
          /\ \A f \in disk : f.base # uuidv4(r, "file")
          /\ \A i \in 1 .. Len(StoreRecords) :
                StoreRecords[i].id # uuidv4(r, "record")

\* C5, in every state: an image upload with a missing or empty place_id has
\* answered 400, its original is gone from the uploads directory, it has no
\* variant files and no record of the Record Store names its file.
C5_NothingSurvives ==
    \A r \in Uploads :
       Answered(r) /\ ImageUpload(r) /\ Falsy(up[r].place_id)
       => /\ up[r].resp.status = 400
          /\ up[r].resp.error = "Missing place_id"
          /\ \A f \in disk : f.base # uuidv4(r, "file")
          /\ \A i \in 1 .. Len(StoreRecords) :
                /\ StoreRecords[i].filename.base # uuidv4(r, "file")
                /\ StoreRecords[i].id # uuidv4(r, "record")

\* C5, in every step: the step that answers such a request leaves the
\* metadata file as it was.
C5_StoreUntouched ==
    \A r \in Uploads :
       up[r].pc = "handler" /\ up'[r].pc = "done" => metaFile' = metaFile

C6_MediaErrorAbsorbed ==
    \A r \in Uploads :
       Answered(r) /\ up[r].genErr
       => /\ up[r].saved \in disk
          /\ IF up[r].writeErr
             THEN /\ up[r].resp.status = 500
                  /\ up[r].resp.details = WriteErrorMessage
             ELSE /\ up[r].resp.status = 201
                  /\ up[r].resp.record.url = UploadsUrl(up[r].saved)
                  /\ up[r].resp.record.thumb_url = NullUrl
                  /\ up[r].resp.record.preview_url = NullUrl

\* C6, in every step: the append of such an upload adds exactly one record,
\* the returned one, at the end of the Record Store.
C6_OneRecordAppended ==
    \A r \in Uploads :
       AppendStep(r) /\ up[r].genErr /\ ~up'[r].writeErr
       => LET after == readMetadata(metaFile', TRUE)
          IN /\ Len(after) >= 1
             /\ after[Len(after)] = up'[r].resp.record
             /\ Count(after, up'[r].resp.record) = 1
             /\ Len(after) <= Len(StoreRecords) + 1

\* C6: when variant derivation fails for an otherwise valid upload the
\* response is 201, exactly one record with null variant references and the
\* original's reference is appended, and the original stays on disk; the
\* media error never becomes a request failure.
C6_VariantFailureStillUploads ==
    []C6_MediaErrorAbsorbed /\ [][C6_OneRecordAppended]_vars

\* The thumb was written and the preview failed, and the upload answered 201.
C6_Witness ==
    \E r \in Uploads :
       /\ Answered(r) /\ up[r].genErr /\ up[r].resp.status = 201
       /\ ThumbFilename(up[r].saved) \in disk
       /\ Len(StoreRecords) = 2

\* The entries GET /api/place with empty terms returns for the place of
\* record rec, read from metadata file `file`.
FindByPlace(file, place_id) == userPhotos(readMetadata(file, TRUE), place_id, <<>>)

\* C7, in every step: right after the append of a successful upload, the
\* place filter with empty terms returns the uploaded record exactly once,
\* with the id and references of the 201 response, and with dish and
\* uploader_name equal to '' when the request left them out.
C7_RoundTripStep ==
    \A r \in Uploads :
       AppendStep(r) /\ up'[r].resp.status = 201
       => LET rec == up'[r].resp.record
              found == FindByPlace(metaFile', up[r].place_id)
              hits == {i \in 1 .. Len(found) : found[i].id = rec.id}
          IN /\ rec.place_id = up[r].place_id
             /\ Cardinality(hits) = 1
             /\ \A i \in hits :
                   /\ found[i] = UserPhoto(rec)
                   /\ found[i].url = UploadsUrl(up[r].saved)
                   /\ up[r].dish = UndefinedText => found[i].dish = <<>>
                   /\ up[r].dish # UndefinedText => found[i].dish = up[r].dish
                   /\ up[r].uploader_name = Undefined => found[i].uploader_name = ""

C7_RoundTrip == [][C7_RoundTripStep]_vars

\* Two uploads for the same place are in the store, the later one sent
\* without dish and uploader_name.
C7_Witness ==
    /\ Len(StoreRecords) = 2
    /\ StoreRecords[1].place_id = StoreRecords[2].place_id
    /\ \E r \in Uploads :
          /\ Answered(r) /\ up[r].resp.status = 201
          /\ up[r].dish = UndefinedText
          /\ StoreRecords[2] = up[r].resp.record
          /\ StoreRecords[2].dish = <<>>
          /\ StoreRecords[2].uploader_name = ""

\* C17: in every reachable state, every record of the Record Store has a
\* non-empty place_id and an original reference that names a file present in
\* the uploads directory.
C17_RecordsAreValid ==
    \A k \in 1 .. Len(StoreRecords) :
       /\ StoreRecords[k].place_id \notin {Undefined, ""}
       /\ StoreRecords[k].filename # NullName
       /\ StoreRecords[k].filename \in disk
       /\ StoreRecords[k].url = [prefix |-> "/uploads/", name |-> StoreRecords[k].filename]

\* One upload is stored, with its original on disk and no variants, while
\* another one, sent with an empty place_id, was rejected and its file
\* removed.
C17_Witness ==
    /\ Len(StoreRecords) = 1
    /\ StoreRecords[1].thumb_url = NullUrl
    /\ StoreRecords[1].filename \in disk
    /\ \E r \in Uploads :
          /\ Answered(r) /\ up[r].place_id = "" /\ up[r].resp.status = 400
          /\ up[r].saved # NullName /\ up[r].saved \notin disk

\* The thumb, the preview of request r was derived: sharp wrote the file.
ThumbDerived(r) == ThumbFilename(up[r].saved) \in disk

PreviewDerived(r) == PreviewFilename(up[r].saved) \in disk

\* C18: the thumb and preview references of a persisted record are
\* independently nullable: each is non-null exactly when its own variant was
\* derived, so a derived thumb with a failed preview is persisted as a
\* non-null thumb reference and a null preview reference.
C18_IndependentVariants ==
    \A r \in Uploads :
       (Answered(r) /\ up[r].resp.status = 201)
       => /\ (up[r].resp.record.thumb_url # NullUrl) = ThumbDerived(r)
          /\ (up[r].resp.record.preview_url # NullUrl) = PreviewDerived(r)

\* The files of the uploads directory that request r wrote.
FilesOf(r) == {f \in disk : f.base = uuidv4(r, "file")}

\* Some record of the Record Store refers to file f, as its original, its
\* thumb or its preview.
Referenced(f) ==
    \E k \in 1 .. Len(StoreRecords) :
       \/ StoreRecords[k].filename = f
       \/ StoreRecords[k].thumb_url = [prefix |-> "/uploads/", name |-> f]
       \/ StoreRecords[k].preview_url = [prefix |-> "/uploads/", name |-> f]

\* C20: once an upload request has answered (201, 400 or 500), every file
\* it wrote to the uploads directory is referenced by a record of the Record
\* Store, also when the thumb was derived and the preview failed, and when
\* the metadata write failed after the files were written.
C20_NoOrphanedMedia ==
    \A r \in Uploads :
       Answered(r) => \A f \in FilesOf(r) : Referenced(f)

(***************************************************************************)
(* Properties of the search service.                                       *)
(***************************************************************************)
SearchAnswered == srch.pc = "done"

\* The candidates the provider reports to the text search.
Reported == IF provider.hasResults THEN provider.results ELSE <<>>

\* C8: when the text search or any detail fetch fails, the request answers
\* 500 with no results list; a 200 carries a result for every fetch, all of
\* them resolved, whatever the order in which the fetches completed.
C8_FailFastJoin ==
    /\ (srch.caught # "nothing" \/ \E i \in 1 .. Len(srch.fetch) : srch.fetch[i] = "failed")
       => /\ SearchAnswered
          /\ srch.resp.status = 500
          /\ srch.resp.error = "Search failed"
          /\ ~srch.resp.hasResults
          /\ srch.resp.results = <<>>
    /\ srch.resp.status = 200
       => /\ \A i \in 1 .. Len(srch.fetch) : srch.fetch[i] = "ok"
          /\ Len(srch.resp.results) = Len(srch.fetch)

\* The third fetch failed after the second resolved, the first still pending.
C8_Witness ==
    /\ SearchAnswered
    /\ srch.resp.status = 500
    /\ Len(srch.fetch) >= 3
    /\ srch.fetch[1] = "pending" /\ srch.fetch[2] = "ok" /\ srch.fetch[3] = "failed"

\* C9: a successful search over n reported candidates returns exactly
\* min(n, 20) results, the i-th being the summary of the i-th candidate,
\* for every completion order of the detail fetches.
C9_CappedInCandidateOrder ==
    (SearchAnswered /\ srch.resp.status = 200)
    => /\ Len(srch.resp.results) = Min(Len(Reported), 20)
       /\ \A i \in 1 .. Len(srch.resp.results) :
             /\ srch.resp.results[i].place_id = Reported[i].place_id
             /\ srch.resp.results[i].maps_url = googleMapsUrl(Reported[i].place_id)
             /\ srch.resp.results[i].name \in
                   { <<"details name", Reported[i].place_id>>,
                     <<"text search name", Reported[i].place_id>> }

\* 21 candidates reported, 20 results returned.
C9_Witness ==
    /\ SearchAnswered /\ srch.resp.status = 200
    /\ Len(Reported) = 21
    /\ Len(srch.resp.results) = 20
    /\ srch.resp.results[20].place_id = "P20"

\* The Record Store as one read of a read-only handler finds it: its
\* records, or none when the read fails (reads degrade to empty).
StoreAsRead == {StoreRecords, <<>>}

\* The thumbnail by priority: the first provider photo at width 400, else
\* the thumb of the first stored record of the place that has one, else null.
ThumbnailByPriority(photos, place_id, store) ==
    LET withThumb == {k \in 1 .. Len(store) :
                         store[k].place_id = place_id /\ store[k].thumb_url # NullUrl}
    IN IF Len(photos) >= 1
       THEN [kind |-> "proxy", photo_reference |-> photos[1], maxwidth |-> 400,
             upload |-> NullUrl]
       ELSE IF withThumb # {}
       THEN [kind |-> "upload", photo_reference |-> <<"", "">>, maxwidth |-> 0,
             upload |-> store[Kth(withThumb, 1)].thumb_url]
       ELSE NullThumbnail

QuotedIfWhiteSpace(t) ==
    IF \E k \in 1 .. Len(t) : t[k] \in WhiteSpace
    THEN <<"\"">> \o t \o <<"\"">>
    ELSE t

RECURSIVE OrJoined(_)
OrJoined(terms) ==
    IF Len(terms) = 1 THEN QuotedIfWhiteSpace(terms[1])
    ELSE QuotedIfWhiteSpace(terms[1]) \o <<" ", "O", "R", " ">> \o OrJoined(Tail(terms))

RestaurantsInHongKong ==
    <<" ", "r", "e", "s", "t", "a", "u", "r", "a", "n", "t", "s", " ", "i", "n",
      " ", "H", "o", "n", "g", " ", "K", "o", "n", "g">>

\* C14: for every non-empty cleaned term list, the query sent to the text
\* search is the terms joined by ' OR ', every term that contains any
\* whitespace character in double quotes and every other term bare, followed
\* by ' restaurants in Hong Kong'.
C14_QueryConstruction ==
    (srch.pc # "idle" /\ Len(srch.terms) > 0)
    => srch.query = OrJoined(srch.terms) \o RestaurantsInHongKong

(***************************************************************************)
(* Properties of the place service.                                        *)
(***************************************************************************)
PlaceAnswered == plc.pc = "done"

\* The tokens of the claim: the lower-cased review texts, split on runs of
\* non-word characters, without the tokens of length <= 1 and the stop-words.
ReviewTokens(reviews) ==
    LET text == toLowerCase(join([i \in 1 .. Len(reviews) |->
                                     TextOrEmpty(reviews[i].text)], <<" ">>))
        stop == { <<"t", "h", "e">>, <<"a", "n", "d">>, <<"o", "f">>, <<"a">>,
                  <<"i", "s">>, <<"i", "n">>, <<"t", "o">>,
                  <<"w", "i", "t", "h">>, <<"o", "n">> }
    IN SelectSeq(splitNonWord(text), LAMBDA w : Len(w) > 1 /\ w \notin stop)

\* The distinct tokens by descending frequency, equal frequencies in the
\* order of first occurrence, cut to the first 10.
FrequencyRanking(tokens) ==
    LET distinct == Range(tokens)
        first(w) == CHOOSE i \in 1 .. Len(tokens) :
                       tokens[i] = w /\ \A j \in 1 .. i - 1 : tokens[j] # w
        ahead(v, w) == \/ Count(tokens, v) > Count(tokens, w)
                       \/ Count(tokens, v) = Count(tokens, w) /\ first(v) < first(w)
        place(w) == 1 + Cardinality({v \in distinct : ahead(v, w)})
    IN [k \in 1 .. Min(Cardinality(distinct), 10) |->
           CHOOSE w \in distinct : place(w) = k]

\* C10: dishCandidates is the list of at most 10 distinct tokens of the
\* review texts by descending frequency, tokens of equal frequency in the
\* order of their first occurrence, for every token alphabet, digits included.
C10_FrequencyThenFirstSeen ==
    (PlaceAnswered /\ plc.resp.status = 200)
    => plc.resp.dishCandidates = FrequencyRanking(ReviewTokens(plc.resp.reviews))

\* The places of reviews whose lower-cased text contains some term.
Mentioning(reviews, terms) ==
    {i \in 1 .. Len(reviews) :
        \E t \in Range(terms) :
           includes(toLowerCase(TextOrEmpty(reviews[i].text)), toLowerCase(t))}

\* C11: in every place response, reviewsWithTerms is the sub-sequence of
\* reviews made of exactly the reviews whose lower-cased text contains a
\* lower-cased term; with an empty cleaned term list it is empty.
C11_ReviewsWithTerms ==
    (PlaceAnswered /\ plc.resp.status = 200)
    => LET keep == Mentioning(plc.resp.reviews, plc.terms)
       IN /\ plc.resp.reviewsWithTerms =
                [k \in 1 .. Cardinality(keep) |-> plc.resp.reviews[Kth(keep, k)]]
          /\ (plc.terms = <<>> => plc.resp.reviewsWithTerms = <<>>)

\* Three reviews, the first and the third mention a term (the first in
\* capitals), the second has no text.
C11_Witness ==
    /\ PlaceAnswered /\ plc.resp.status = 200
    /\ Len(plc.terms) = 2
    /\ Len(plc.resp.reviews) = 3
    /\ plc.resp.reviews[2].text = UndefinedText
    /\ plc.resp.reviewsWithTerms = <<plc.resp.reviews[1], plc.resp.reviews[3]>>

\* The places of store whose record is of place_id and, when there are
\* terms, has a lower-cased dish that contains one of them.
EntriesOf(store, place_id, terms) ==
    {k \in 1 .. Len(store) :
        /\ store[k].place_id = place_id
        /\ (terms = <<>>
            \/ \E t \in Range(terms) : includes(toLowerCase(store[k].dish), t))}

VariantsOnDisk(r) == {f \in disk : f.base = uuidv4(r, "file") /\ f.suffix # ""}

\* Request r has a record in the Record Store.
HasRecord(r) ==
    \E k \in 1 .. Len(StoreRecords) : StoreRecords[k].id = uuidv4(r, "record")

\* C15, in every state: a provider call of a search was issued for a
\* non-empty cleaned term list only, and one of a place request for a
\* place_id only; a search without terms and a place request without
\* place_id have answered 400 with no provider call; an upload without a
\* photo, or with an image and without place_id, has answered 400 with no
\* variant derived and no record appended.
C15_RejectedBeforeWork ==
    /\ srch.calls > 0 => Len(srch.terms) > 0
    /\ (SearchAnswered /\ Len(srch.terms) = 0)
       => srch.resp.status = 400 /\ srch.calls = 0
    /\ plc.calls > 0 => ~Falsy(plc.place_id)
    /\ (PlaceAnswered /\ Falsy(plc.place_id))
       => plc.resp.status = 400 /\ plc.calls = 0
    /\ \A r \in Uploads :
          (Answered(r) /\ (~up[r].file.present \/ (ImageUpload(r) /\ Falsy(up[r].place_id))))
          => /\ up[r].resp.status = 400
             /\ up[r].resp.json
             /\ VariantsOnDisk(r) = {}
             /\ ~up[r].genErr
             /\ ~HasRecord(r)

\* C15, in every step: the step that answers 400 calls no provider and
\* leaves the metadata file and the variants alone.
C15_NoWorkInRejection ==
    /\ (srch'.resp.status = 400 /\ srch.resp.status # 400) => srch'.calls = 0
    /\ (plc'.resp.status = 400 /\ plc.resp.status # 400) => plc'.calls = 0
    /\ \A r \in Uploads :
          (up'[r].resp.status = 400 /\ up[r].resp.status # 400)
          => /\ metaFile' = metaFile
             /\ up[r].pc = "handler"
             /\ disk' \subseteq disk

IsPrefix(a, b) == Len(a) <= Len(b) /\ \A k \in 1 .. Len(a) : a[k] = b[k]

\* C16, in every step of any upload, search or place request, successful or
\* failed: the Record Store before the step is a prefix of the Record Store
\* after it.
C16_StoreOnlyGrowsStep == IsPrefix(StoreRecords, StoreRecords')

\* C16: the Record Store is append-only: its content at an earlier moment is
\* a prefix of its content at any later moment; no persisted record is
\* removed, reordered or modified.
C16_AppendOnly == [][C16_StoreOnlyGrowsStep]_vars

(***************************************************************************)
(* Properties of the client.                                               *)
(***************************************************************************)
\* The modal shows the photo of record rec among the user uploads.
Shows(rec) ==
    \E k \in 1 .. Len(client.details.userPhotos) :
       client.details.userPhotos[k].id = rec.id

\* C19: in the place modal, after an upload for the open place answered 201
\* and the fetchDetails that follows completed, the details shown contain
\* the uploaded photo in userPhotos, for every text of the search box and
\* every dish label of the form, the empty one included.
C19_UploadedPhotoShown ==
    (client.pc = "shown" /\ client.refreshed) => Shows(up[1].resp.record)

\* Request k of a sequence of requests is still in flight: sent, and its
\* await not over.
InFlight(requests, k) == requests[k].pc # "done"

\* C21: when the selected place changes while the details fetch of the place
\* selected before is in flight, then, once no fetch is in flight, the
\* details the modal holds are those of the place now selected, in whatever
\* order the responses arrived.  Stated for a fetch of the place now
\* selected that was answered 200: the modal holds the body of that answer.
C21_DetailsOfSelectedPlace ==
    LET n == Len(app.fetch)
    IN (/\ n > 0
        /\ \A k \in 1 .. n : ~InFlight(app.fetch, k)
        /\ app.fetch[n].resp.status = 200)
       => client.details = Details(app.fetch[n].resp)

\* C22: when searches are submitted before earlier ones have answered, then,
\* once no search is in flight, the places displayed are the results of the
\* search submitted last (stated for one answered 200), and at every time
\* loading is true exactly when some search is in flight, in whatever order
\* the responses arrived.
C22_LatestSearchShown ==
    LET n == Len(app.search)
    IN /\ (/\ n > 0
           /\ \A k \in 1 .. n : ~InFlight(app.search, k)
           /\ app.search[n].resp.status = 200)
          => app.places = app.search[n].resp.results
       /\ app.loading = (\E k \in 1 .. n : InFlight(app.search, k))

(***************************************************************************)
(* Properties of all endpoints.                                            *)
(***************************************************************************)
ThumbnailStrings(t) == Range(t.photo_reference) \cup {t.upload.prefix}

\* The strings of each response, as a caller receives it.
UploadStrings(resp) ==
    {resp.error, resp.details, resp.message, resp.record.place_id,
     resp.record.uploader_name} \cup Range(resp.record.dish)

SearchStrings(resp) ==
    {resp.error, resp.details} \cup Range(resp.query)
    \cup UNION { {resp.results[i].place_id} \cup Range(resp.results[i].name)
                 \cup Range(resp.results[i].maps_url)
                 \cup ThumbnailStrings(resp.results[i].thumbnail) :
                 i \in 1 .. Len(resp.results) }

PlaceStrings(resp) ==
    {resp.error, resp.details, resp.place_id} \cup Range(resp.name)
    \cup Range(resp.maps_url)
    \cup UNION { Range(resp.photos[i].photo_reference)
                 \cup ThumbnailStrings(resp.photos[i].url) :
                 i \in 1 .. Len(resp.photos) }
    \cup UNION { {resp.reviews[i].author_name} \cup Range(TextOrEmpty(resp.reviews[i].text)) :
                 i \in 1 .. Len(resp.reviews) }
    \cup UNION { Range(resp.dishCandidates[i]) : i \in 1 .. Len(resp.dishCandidates) }
    \cup UNION { {resp.userPhotos[i].uploader_name, resp.userPhotos[i].url.prefix}
                 \cup Range(resp.userPhotos[i].dish) :
                 i \in 1 .. Len(resp.userPhotos) }

PhotoStrings(resp) == {resp.body} \cup Range(resp.location)

\* C2: no response of any endpoint (status, body or redirect Location)
\* contains the value of GOOGLE_API_KEY.
C2_KeyNeverSent ==
    /\ \A r \in Uploads : GOOGLE_API_KEY \notin UploadStrings(up[r].resp)
    /\ GOOGLE_API_KEY \notin SearchStrings(srch.resp)
    /\ GOOGLE_API_KEY \notin PlaceStrings(plc.resp)
    /\ GOOGLE_API_KEY \notin PhotoStrings(photo.resp)

====
